---------------------------- MODULE Spec2Model ----------------------------
(***************************************************************************)
(* A model of the mock Motion SDK data server, test/mock_sdk_server.py     *)
(* (test/test_server.py is the same program for an older interpreter; it   *)
(* differs in the literal of the device list only).                        *)
(*                                                                         *)
(* Bytes are integers 0..255, as in a Python bytes object; a byte string   *)
(* is a sequence of them.  The state is the one of main(), of the six      *)
(* SDKServer objects with their worker threads, and of each Handler.handle *)
(* call in progress, together with what the client of every connection     *)
(* has been sent.                                                          *)
(***************************************************************************)
EXTENDS Integers, Sequences, FiniteSets, TLC

(***************************************************************************)
(* Program constants.                                                      *)
(***************************************************************************)
PORTS == <<32075, 32076, 32077, 32078, 32079, 32000>>

PortSet == {PORTS[k] : k \in 1..Len(PORTS)}

\* range(0, 100): the number of iterations of the Stream loop.
Iterations == 100

\* random.randint(1, 5): the largest number of copies of one frame.
MaxCopies == 5

\* read_message refuses a declared length above this one.
MaxLength == 65535

(***************************************************************************)
(* Bounds of the model.                                                    *)
(***************************************************************************)
\* Connections the clients make in one run.
MaxConns == 2

\* Pieces a client concatenates into one channel list message.
MaxPieces == 3

\* Iterations of the Stream loop that are walked slice by slice; the later
\* ones are taken one whole iteration at a time.
MaxFine == 1

\* The short bodies of the codec runs have up to MaxBody bytes.
MaxBody == 3

(***************************************************************************)
(* Byte strings.                                                           *)
(***************************************************************************)
Min(S) == CHOOSE x \in S : \A y \in S : x <= y

Pow2(n) == 2 ^ n

\* b''.join(list of byte strings)
RECURSIVE Join(_)
Join(ss) == IF ss = <<>> THEN <<>> ELSE Head(ss) \o Join(Tail(ss))

\* [s] * k
Repeat(s, k) == [x \in 1..k |-> s]

\* s[a:b] of Python, for 0 <= a and 0 <= b
Slice(s, a, b) ==
    LET hi == IF b > Len(s) THEN Len(s) ELSE b
    IN  IF a >= hi THEN <<>> ELSE SubSeq(s, a + 1, hi)

Reverse(s) == [x \in 1..Len(s) |-> s[Len(s) + 1 - x]]

\* The keywords the diagnostic service looks for: b"header", b"payload",
\* b"length", b"xml", b"timeout".
KwHeader  == <<104, 101, 97, 100, 101, 114>>
KwPayload == <<112, 97, 121, 108, 111, 97, 100>>
KwLength  == <<108, 101, 110, 103, 116, 104>>
KwXml     == <<120, 109, 108>>
KwTimeout == <<116, 105, 109, 101, 111, 117, 116>>

\* b'<?xml version="1.0"?>'
XmlDecl == <<60, 63, 120, 109, 108, 32, 118, 101, 114, 115, 105, 111, 110,
             61, 34, 49, 46, 48, 34, 63, 62>>

\* b'<service name="' and b'"/>'
ServiceOpen  == <<60, 115, 101, 114, 118, 105, 99, 101, 32, 110, 97, 109,
                  101, 61, 34>>
ServiceClose == <<34, 47, 62>>

\* b'<node id="default" key="0"><node id="Node" key="1"/></node>'
NodeList == <<60, 110, 111, 100, 101, 32, 105, 100, 61, 34, 100, 101, 102,
              97, 117, 108, 116, 34, 32, 107, 101, 121, 61, 34, 48, 34, 62,
              60, 110, 111, 100, 101, 32, 105, 100, 61, 34, 78, 111, 100,
              101, 34, 32, 107, 101, 121, 61, 34, 49, 34, 47, 62, 60, 47,
              110, 111, 100, 101, 62>>

\* b'<?xm'
XmlFragment == <<60, 63, 120, 109>>

\* b'\0true\n'
ConsoleText == <<0, 116, 114, 117, 101, 10>>

\* bytes.find(sub): the lowest index where sub starts, or -1.
Find(s, sub) ==
    LET at == {k \in 0..(Len(s) - Len(sub)) :
                  SubSeq(s, k + 1, k + Len(sub)) = sub}
    IN  IF at = {} THEN -1 ELSE Min(at)

(***************************************************************************)
(* struct.pack and struct.unpack.  A format that starts with "!" is in     *)
(* network byte order; any other one is in the byte order of the machine,  *)
(* "little" or "big".                                                      *)
(***************************************************************************)
ByteOrders == {"little", "big"}

\* The bytes of the unsigned integer v on w bytes, most significant first.
BigEndian(v, w) == [x \in 1..w |-> (v \div Pow2(8 * (w - x))) % 256]

Ordered(bytes, order) == IF order = "little" THEN Reverse(bytes) ELSE bytes

\* "I": unsigned int, 4 bytes.   "h": short, 2 bytes (v >= 0 here).
\* struct.pack raises on a value out of range; no value here is.
PackI(v, order) == Ordered(BigEndian(v, 4), order)
PackH(v, order) == Ordered(BigEndian(v, 2), order)

\* floor(log2(v)) for v >= 1
RECURSIVE Log2(_)
Log2(v) == IF v < 2 THEN 0 ELSE 1 + Log2(v \div 2)

\* The IEEE 754 single of the integer v, 0 <= v < 2^24, as a 32 bit word.
FloatBits(v) ==
    IF v = 0 THEN 0
    ELSE LET e == Log2(v)
         IN  (127 + e) * Pow2(23) + (v - Pow2(e)) * Pow2(23 - e)

\* "f": float, 4 bytes.
PackF(v, order) == Ordered(BigEndian(FloatBits(v), 4), order)

\* struct.unpack("!I", header)[0].  The model checker's integers are 32 bit
\* signed ones: the headers of the model start with a byte below 128.
UnpackI(header) ==
    header[1] * Pow2(24) + header[2] * Pow2(16) + header[3] * 256 + header[4]

\* struct.pack("I" + str(length) + "s", length, data) on a little-endian
\* machine.
make_messageNative(data) ==
    LET length == Len(data)
    IN  PackI(length, "little") \o data

\* Handler.make_message: struct.pack("!I" + str(length) + "s", length, data)
make_message(data) ==
    LET length == Len(data)
    IN  PackI(length, "big") \o data

(***************************************************************************)
(* Handler.read_message over the bytes `avail` the connection holds when   *)
(* it is called: recv(n) returns the first n of them, or all of them when  *)
(* there are fewer.  None is Python's None.                                *)
(***************************************************************************)
None == <<-1>>

\* The local variable msg before its first assignment.
Unbound == <<-2>>

Recv(avail, n) == Slice(avail, 0, n)

\* read_message without the test of the length.
read_messageAnyLength(avail) ==
    LET header == Recv(avail, 4)
    IN  IF Len(header) # 4 THEN None
        ELSE LET length == UnpackI(header)
                 message == Recv(Slice(avail, 4, Len(avail)), length)
             IN  IF Len(message) # length THEN None ELSE message

read_message(avail) ==
    LET header == Recv(avail, 4)
    IN  IF Len(header) # 4 THEN None
        ELSE LET length == UnpackI(header)
             IN  IF length <= 0 \/ length > MaxLength THEN None
                 ELSE LET message == Recv(Slice(avail, 4, Len(avail)), length)
                      IN  IF Len(message) # length THEN None ELSE message

\* The bytes the connection still holds after read_message(avail).
AfterRead(avail) ==
    LET header == Recv(avail, 4)
    IN  IF Len(header) # 4 THEN Slice(avail, Len(header), Len(avail))
        ELSE LET length == UnpackI(header)
             IN  IF length <= 0 \/ length > MaxLength
                 THEN Slice(avail, 4, Len(avail))
                 ELSE Slice(avail, 4 + length, Len(avail))

(***************************************************************************)
(* The service of a port: Handler.handle, the two if chains on port.       *)
(***************************************************************************)
\* The names of ports 32078 and 32077 taken for each other.
NameSwapped(port) ==
    CASE port = 32079 -> <<112, 114, 101, 118, 105, 101, 119>>
      [] port = 32077 -> <<115, 101, 110, 115, 111, 114>>
      [] port = 32078 -> <<114, 97, 119>>
      [] port = 32076 -> <<99, 111, 110, 102, 105, 103, 117, 114, 97, 98,
                           108, 101>>
      [] port = 32075 -> <<99, 111, 110, 115, 111, 108, 101>>
      [] OTHER        -> <<116, 101, 115, 116>>

Name(port) ==
    CASE port = 32079 -> <<112, 114, 101, 118, 105, 101, 119>>   \* preview
      [] port = 32078 -> <<115, 101, 110, 115, 111, 114>>        \* sensor
      [] port = 32077 -> <<114, 97, 119>>                        \* raw
      [] port = 32076 -> <<99, 111, 110, 102, 105, 103, 117, 114, 97, 98,
                           108, 101>>                            \* configurable
      [] port = 32075 -> <<99, 111, 110, 115, 111, 108, 101>>    \* console
      [] OTHER        -> <<116, 101, 115, 116>>                  \* test

\* Every service takes a channel list.
is_configurableAlways(port) == TRUE

is_configurable(port) ==
    CASE port = 32079 -> FALSE
      [] port = 32078 -> FALSE
      [] port = 32077 -> FALSE
      [] port = 32076 -> TRUE
      [] port = 32075 -> FALSE
      [] OTHER        -> TRUE

\* The ports whose handler reaches the Stream loop.
IsProduction(port) == port \in {32079, 32078, 32077, 32076, 32075}

\* The body of the identity frame.
IdentityXml(port) == XmlDecl \o ServiceOpen \o Name(port) \o ServiceClose

\* The body of the device list frame.
DeviceListXml == XmlDecl \o NodeList

\* The values vs packed one after the other, as floats and as shorts.
PackAllF(vs, order) == Join([x \in 1..Len(vs) |-> PackF(vs[x], order)])

PackAllH(vs, order) == Join([x \in 1..Len(vs) |-> PackH(vs[x], order)])

\* The canned sample of a production port.
Data(port, order) ==
    CASE port = 32079 ->
           PackI(1, order) \o
           PackAllF(<<10, 11, 12, 13, 14, 15, 16, 17, 18, 19, 20, 21,
                            22, 23>>, order)
      [] port = 32078 ->
           PackI(1, order) \o
           PackAllF(<<10, 11, 12, 13, 14, 15, 16, 17, 18>>, order)
      [] port = 32077 ->
           PackI(1, order) \o
           PackAllH(<<10, 11, 12, 13, 14, 15, 16, 17, 18>>, order)
      [] port = 32076 ->
           PackI(1, order) \o PackI(8, order) \o
           PackAllF(<<10, 11, 12, 13, 14, 15, 16, 17>>, order)
      [] port = 32075 -> ConsoleText

\* struct.pack("h", 1)
HeaderBufFramed(order) == make_message(PackH(1, order))

HeaderBuf(order) == PackH(1, order)

\* struct.pack("!I2I3f", 40, 1, 8, 10, 11, 12)
PayloadBuf ==
    PackI(40, "big") \o PackI(1, "big") \o PackI(8, "big") \o
    PackAllF(<<10, 11, 12>>, "big")

\* struct.pack("!I2I3f", 65536, 1, 8, 10, 11, 12)
LengthBufInRange ==
    PackI(65535, "big") \o PackI(1, "big") \o PackI(8, "big") \o
    PackAllF(<<10, 11, 12>>, "big")

LengthBuf ==
    PackI(65536, "big") \o PackI(1, "big") \o PackI(8, "big") \o
    PackAllF(<<10, 11, 12>>, "big")

\* self.make_message(b'<?xm')
XmlBuf == make_message(XmlFragment)

\* The reply to the keyword that comes first in the message.
DiagnosticBufByPosition(m, order) ==
    LET at == {Find(m, kw) : kw \in {KwHeader, KwPayload, KwLength, KwXml}}
                 \ {-1}
    IN  IF at = {} THEN Unbound
        ELSE IF Find(m, KwHeader) = Min(at) THEN HeaderBuf(order)
        ELSE IF Find(m, KwPayload) = Min(at) THEN PayloadBuf
        ELSE IF Find(m, KwLength) = Min(at) THEN LengthBuf
        ELSE XmlBuf

\* The reply of the diagnostic service to the channel list m (a byte
\* string): the first branch of the if chain whose keyword m holds.
\* Unbound when no branch is taken: buf is then never assigned.
DiagnosticBuf(m, order) ==
    IF Find(m, KwHeader) # -1 THEN HeaderBuf(order)
    ELSE IF Find(m, KwPayload) # -1 THEN PayloadBuf
    ELSE IF Find(m, KwLength) # -1 THEN LengthBuf
    ELSE IF Find(m, KwXml) # -1 THEN XmlBuf
    ELSE Unbound

(***************************************************************************)
(* The bodies and the byte streams the codec is run on.                    *)
(***************************************************************************)
\* Bodies of 0 to MaxBody bytes over three byte values, and long ones: 255
\* and 256 bytes, the longest that read_message takes, and one byte more.
Filled(n, byte) == [x \in 1..n |-> byte]

RECURSIVE ShortBodies(_)
ShortBodies(k) ==
    IF k = 0 THEN {<<>>}
    ELSE {<<>>} \cup {<<b>> \o t : b \in {0, 65, 255}, t \in ShortBodies(k - 1)}

Bodies ==
    ShortBodies(MaxBody)
      \cup {Filled(n, 120) : n \in {255, 256, MaxLength, MaxLength + 1}}

\* What may follow a frame on the connection.
Trails == {<<>>, <<0>>, <<0, 0, 0, 1, 65>>}

\* Headers that declare 0, and more than MaxLength, with what may follow
\* them: nothing, a few bytes, as many bytes as declared.
BadHeaders ==
    {<<0, 0, 0, 0>>, <<0, 1, 0, 0>>, <<0, 1, 0, 1>>, <<1, 0, 0, 0>>,
     <<127, 255, 255, 255>>}

RawStreams ==
    {h \o t : h \in BadHeaders, t \in {<<>>, <<65>>, KwHeader}}
      \cup {<<0, 1, 0, 0>> \o Filled(MaxLength + 1, 120)}
      \cup {<<>>, <<0>>, <<0, 0, 0>>, <<0, 0, 0, 2, 65>>}

(***************************************************************************)
(* What the clients send.                                                  *)
(***************************************************************************)
\* The pieces of a channel list message: the five keywords, and b"x",
\* b"ml", b" ", of which the first two make b"xml" when they meet.
Pieces == {KwHeader, KwPayload, KwLength, KwXml, KwTimeout,
           <<120>>, <<109, 108>>, <<32>>}

RECURSIVE Concats(_)
Concats(k) ==
    IF k = 0 THEN {<<>>}
    ELSE {a \o b : a \in Pieces, b \in Concats(k - 1)}

Messages == UNION {Concats(k) : k \in 1..MaxPieces}

\* Byte streams that make read_message return None: a closed connection, a
\* short header, a declared length of 0, of 65536, a body shorter than
\* declared (one byte short, and 65535 declared).
Malformed ==
    { <<>>, <<0, 0>>, <<0, 0, 0, 0>>, <<0, 1, 0, 0>> \o KwHeader,
      <<0, 0, 0, 7>> \o KwHeader, <<0, 0, 255, 255>> \o KwXml }

\* What a connection may hold when the channel list is read: one frame, one
\* frame and more bytes, or a malformed stream.
ClientStreams ==
    {make_message(m) : m \in Messages}
      \cup {make_message(KwXml) \o KwHeader}
      \cup Malformed

\* The same, for the runs with several ports and connections.
FewStreams ==
    { make_message(KwHeader), make_message(KwXml \o KwTimeout),
      make_message(<<32>>), <<>> }

\* What arrives while the diagnostic service waits in its second read.
WaitStreams == { <<>>, <<0, 0>>, make_message(<<32>>) }

\* The return codes of the subprocess.
ReturnCodes == {0, 1}

(***************************************************************************)
(* The state.                                                              *)
(***************************************************************************)
VARIABLES
    byteorder,   \* sys.byteorder of the machine
    hasArg,      \* len(sys.argv) > 1
    mainpc,      \* main(): "start", "run", "stop", "exit"
    mainIdx,     \* main(): the index in server_list of the for loop at hand
    stopStep,    \* stop_thread(): "shutdown", "wait", "close", "join"
    rc,          \* main(): rc
    exitCode,    \* the argument of sys.exit, -1 before it
    server,      \* port -> the SDKServer and its socketserver.TCPServer
    handler,     \* port -> the Handler.handle call of the port's worker
    client,      \* connection -> the client's end of it
    codec        \* a body, its frame, and what read_message makes of it

vars == <<byteorder, hasArg, mainpc, mainIdx, stopStep, rc, exitCode,
          server, handler, client, codec>>

mainVars == <<hasArg, mainpc, mainIdx, stopStep, rc, exitCode>>

Conns == 1..MaxConns

\* No call of handle in progress.
NoHandler ==
    [ pc      |-> "none",    \* the place in handle
      msg     |-> Unbound,   \* msg: the channel list, then the copies, joined
      data    |-> Unbound,   \* data, the canned sample
      i       |-> 0,         \* i of the for loop
      j       |-> 0,         \* j of the while loop
      sent    |-> <<>>,      \* the slices sent in this iteration, joined
      nsent   |-> 0,         \* the tally of the sample frames, when one is kept
      avail   |-> <<>>,      \* bytes received and not read yet
      broken  |-> FALSE,     \* the connection has failed a send
      reads   |-> 0,         \* calls of read_message so far
      failed  |-> FALSE,     \* a send of this session has failed
      err     |-> "",        \* the error of the last send that failed
      ioAfter |-> 0 ]        \* sends and reads begun after a failed send

\* A client that has not connected.
NoClient ==
    [ port  |-> 0,
      state |-> "new",     \* "new", "queued", "serving", "closed"
      out   |-> <<>>,      \* the server's writes, in order
      distinct |-> {},     \* the sample frames written, as a set
      ended |-> "" ]       \* how its session ended: "return", "exception",
                           \* "refused"

\* The frame codec at rest.
NoCodec ==
    [ step    |-> "idle",   \* "idle", "input", "wire", "read"
      body    |-> None,     \* the argument of make_message, if it was called
      wire    |-> <<>>,     \* the bytes the connection holds
      message |-> None,     \* the result of read_message
      rest    |-> <<>> ]    \* the bytes the connection holds after it

\* A TCPServer after its construction: bound and listening.
NewServer ==
    [ worker           |-> "unstarted",  \* "unstarted", "select", "handle",
                                         \* "exited"
      shutdown_request |-> FALSE,        \* __shutdown_request
      is_shut_down     |-> FALSE,        \* __is_shut_down, an Event
      listening        |-> TRUE,         \* the listening socket is open
      inflight         |-> FALSE,        \* shutdown() was called during a
                                         \* session
      backlog          |-> <<>>,         \* connections not accepted yet
      cur              |-> 0 ]           \* the connection being served

TypeOK ==
    /\ byteorder \in ByteOrders
    /\ hasArg \in BOOLEAN
    /\ mainpc \in {"start", "run", "stop", "exit"}
    /\ mainIdx \in 1..Len(PORTS)
    /\ stopStep \in {"shutdown", "wait", "close", "join"}
    /\ rc \in ReturnCodes
    /\ exitCode \in ReturnCodes \cup {-1}
    /\ DOMAIN server = PortSet
    /\ DOMAIN handler = PortSet
    /\ DOMAIN client = Conns
    /\ codec.step \in {"idle", "input", "wire", "read"}

(***************************************************************************)
(* main(), up to the start of the workers.                                 *)
(***************************************************************************)
\* After server_list is built: every TCPServer is bound, no thread runs.
\* The runs of the whole program are those of a little-endian machine.
Init ==
    /\ byteorder = "little"
    /\ hasArg \in BOOLEAN
    /\ mainpc = "start"
    /\ mainIdx = 1
    /\ stopStep = "shutdown"
    /\ rc = 0
    /\ exitCode = -1
    /\ server = [p \in PortSet |-> NewServer]
    /\ handler = [p \in PortSet |-> NoHandler]
    /\ client = [c \in Conns |-> NoClient]
    /\ codec = NoCodec

\* After the loop of start_thread calls: every worker is in serve_forever.
InitSession ==
    /\ byteorder \in ByteOrders
    /\ hasArg = FALSE
    /\ mainpc = "run"
    /\ mainIdx = 1
    /\ stopStep = "shutdown"
    /\ rc = 0
    /\ exitCode = -1
    /\ server = [p \in PortSet |-> [NewServer EXCEPT !.worker = "select"]]
    /\ handler = [p \in PortSet |-> NoHandler]
    /\ client = [c \in Conns |-> NoClient]
    /\ codec = NoCodec

(***************************************************************************)
(* The clients.                                                            *)
(***************************************************************************)
\* Client c connects to port p: the connection waits in the backlog of the
\* listening socket.  The connections are numbered in the order they are
\* made in.
Connect(c, p) ==
    /\ client[c].state = "new"
    /\ \A d \in Conns : d < c => client[d].state # "new"
    /\ server[p].listening
    /\ client' = [client EXCEPT ![c] = [@ EXCEPT !.port = p, !.state = "queued"]]
    /\ server' = [server EXCEPT ![p] = [@ EXCEPT !.backlog = Append(@, c)]]
    /\ UNCHANGED <<byteorder, codec, mainVars, handler>>

(***************************************************************************)
(* socketserver.TCPServer.serve_forever, the target of the worker thread.  *)
(***************************************************************************)
\* A server that takes a connection while it handles another one, as a
\* ThreadingTCPServer does.
CanAcceptThreaded(p) ==
    /\ server[p].worker \in {"select", "handle"}
    /\ ~server[p].shutdown_request
    /\ server[p].backlog # <<>>

\* The loop takes a connection when it waits in select and no shutdown is
\* asked for: one connection at a time, handled in the worker itself.
CanAccept(p) ==
    /\ server[p].worker = "select"
    /\ ~server[p].shutdown_request
    /\ server[p].backlog # <<>>

Accept(p) ==
    /\ CanAccept(p)
    /\ LET c == Head(server[p].backlog)
       IN  /\ server' = [server EXCEPT ![p] =
                            [@ EXCEPT !.worker = "handle",
                                      !.backlog = Tail(@),
                                      !.cur = c]]
           /\ client' = [client EXCEPT ![c] = [@ EXCEPT !.state = "serving"]]
           /\ handler' = [handler EXCEPT ![p] =
                             [NoHandler EXCEPT !.pc = "identity"]]
    /\ UNCHANGED <<byteorder, codec, mainVars>>

\* A server without handle_error: an exception of the handler ends the
\* worker thread.
FinishOrDie(p) ==
    /\ handler[p].pc \in {"done", "raised"}
    /\ LET c == server[p].cur
       IN  client' = [client EXCEPT ![c] =
                         [@ EXCEPT !.state = "closed",
                                   !.ended = IF handler[p].pc = "done"
                                             THEN "return" ELSE "exception"]]
    /\ server' = [server EXCEPT ![p] =
                     [@ EXCEPT !.worker = IF handler[p].pc = "done"
                                          THEN "select" ELSE "exited",
                               !.cur = 0]]
    /\ handler' = [handler EXCEPT ![p] = NoHandler]
    /\ UNCHANGED <<byteorder, codec, mainVars>>

\* The handler has returned or raised: the server reports an exception
\* (handle_error), closes the connection (shutdown_request) and goes back
\* to select.  The locals of handle are gone.
Finish(p) ==
    /\ handler[p].pc \in {"done", "raised"}
    /\ LET c == server[p].cur
       IN  client' = [client EXCEPT ![c] =
                         [@ EXCEPT !.state = "closed",
                                   !.ended = IF handler[p].pc = "done"
                                             THEN "return" ELSE "exception"]]
    /\ server' = [server EXCEPT ![p] = [@ EXCEPT !.worker = "select", !.cur = 0]]
    /\ handler' = [handler EXCEPT ![p] = NoHandler]
    /\ UNCHANGED <<byteorder, codec, mainVars>>

(***************************************************************************)
(* Handler.handle.                                                         *)
(***************************************************************************)
\* What a send may do.  BrokenPipeError and ConnectionAbortedError are the
\* two errors the handler catches; ConnectionResetError stands for the
\* others.  A connection that has failed a send fails every later one.
SendResults(h) ==
    IF h.broken THEN {"BrokenPipeError"}
    ELSE {"ok", "BrokenPipeError", "ConnectionAbortedError",
          "ConnectionResetError"}

\* The second except clause is missing.
CaughtBrokenPipe(r) == r \in {"BrokenPipeError"}

Caught(r) == r \in {"BrokenPipeError", "ConnectionAbortedError"}

\* The handler's record after a send with result r.
AfterSend(h, r) ==
    [h EXCEPT !.broken  = @ \/ r # "ok",
              !.failed  = @ \/ r # "ok",
              !.err     = IF r # "ok" THEN r ELSE @,
              !.ioAfter = IF h.failed THEN @ + 1 ELSE @]

\* The handler's record after a call of read_message over the bytes a.
AfterRecv(h, a) ==
    [h EXCEPT !.avail   = AfterRead(a),
              !.reads   = @ + 1,
              !.ioAfter = IF h.failed THEN @ + 1 ELSE @]

\* A call of read_message in which recv raises.
RecvRaises(h) ==
    [h EXCEPT !.reads   = @ + 1,
              !.ioAfter = IF h.failed THEN @ + 1 ELSE @,
              !.pc      = "raised"]

\* The record of the server's writes on a connection, with the bytes handed
\* to sendall; of the sample frames, the first one only.
Logged(o, kind, bytes) ==
    IF kind = "sample" /\ \E x \in 1..Len(o) : o[x].kind = kind THEN o
    ELSE Append(o, [kind |-> kind, bytes |-> bytes])

\* write_message(data): its result is dropped by handle; an error that is
\* not caught ends handle.
WriteMessage(p, kind, data, next) ==
    \E r \in SendResults(handler[p]) :
        /\ client' = [client EXCEPT ![server[p].cur] =
               [@ EXCEPT !.out = Logged(@, kind, make_message(data))]]
        /\ handler' = [handler EXCEPT ![p] =
               [AfterSend(@, r) EXCEPT !.pc = IF r = "ok" \/ Caught(r)
                                              THEN next ELSE "raised"]]

\* The device list is left out on the ports that read no channel list.
AfterIdentityNoList(p) == IF is_configurable(p) THEN "chanlist" ELSE "stream"

\* The place that follows the identity frame.
AfterIdentity(p) == IF is_configurable(p) THEN "chanlist" ELSE "devlist"

\* self.write_message(identity)
SendIdentity(p) ==
    /\ handler[p].pc = "identity"
    /\ WriteMessage(p, "identity", IdentityXml(p), AfterIdentity(p))
    /\ UNCHANGED <<byteorder, codec, mainVars, server>>

\* msg = self.read_message(), over what the client has sent by then; recv
\* may raise as well.
ReadChannelList(p, streams) ==
    /\ handler[p].pc = "chanlist"
    /\ \/ \E s \in streams :
             handler' = [handler EXCEPT ![p] =
                 [AfterRecv(@, s) EXCEPT !.msg = read_message(s),
                                         !.pc = "devlist"]]
       \/ handler' = [handler EXCEPT ![p] = RecvRaises(@)]
    /\ UNCHANGED <<byteorder, codec, mainVars, server, client>>

\* The place that follows the device list frame.
AfterDeviceList(p) == IF IsProduction(p) THEN "stream" ELSE "reply"

\* self.write_message(device list), and on a production port data =
\* struct.pack(...)
SendDeviceList(p) ==
    /\ handler[p].pc = "devlist"
    /\ \E r \in SendResults(handler[p]) :
          /\ client' = [client EXCEPT ![server[p].cur] =
                 [@ EXCEPT !.out = Logged(@, "devlist",
                                          make_message(DeviceListXml))]]
          /\ handler' = [handler EXCEPT ![p] =
                 IF r = "ok" \/ Caught(r)
                 THEN [AfterSend(@, r) EXCEPT
                          !.data = IF IsProduction(p)
                                   THEN Data(p, byteorder) ELSE @,
                          !.pc = AfterDeviceList(p)]
                 ELSE [AfterSend(@, r) EXCEPT !.pc = "raised"]]
    /\ UNCHANGED <<byteorder, codec, mainVars, server>>

\* The return that ends the diagnostic branch is missing.
AfterReplyNoReturn(m) == "stream"

\* The timeout branch is never taken.
AfterReplyAlwaysSleep(m) == "sleep"

\* The place that follows the reply of the diagnostic service.
AfterReply(m) == IF Find(m, KwTimeout) # -1 THEN "timeout" ELSE "sleep"

\* The else branch of the second if chain.  msg.find raises when msg is
\* None, sendall(buf) when buf was not assigned; an error of sendall is
\* not caught here.
DiagnosticReply(p) ==
    /\ handler[p].pc = "reply"
    /\ LET h == handler[p]
           buf == DiagnosticBuf(h.msg, byteorder)
       IN  IF h.msg = None \/ buf = Unbound
           THEN /\ handler' = [handler EXCEPT ![p] = [@ EXCEPT !.pc = "raised"]]
                /\ UNCHANGED client
           ELSE \E r \in SendResults(h) :
                  /\ client' = [client EXCEPT ![server[p].cur] =
                         [@ EXCEPT !.out = Logged(@, "reply", buf)]]
                  /\ handler' = [handler EXCEPT ![p] =
                         [AfterSend(@, r) EXCEPT !.pc = IF r = "ok"
                                                        THEN AfterReply(h.msg)
                                                        ELSE "raised"]]
    /\ UNCHANGED <<byteorder, codec, mainVars, server>>

\* self.read_message() of the timeout branch: it returns when the client
\* sends something or closes; its result is dropped.
DiagnosticTimeout(p) ==
    /\ handler[p].pc = "timeout"
    /\ \/ \E s \in WaitStreams :
             handler' = [handler EXCEPT ![p] =
                 [AfterRecv(@, handler[p].avail \o s) EXCEPT !.pc = "done"]]
       \/ handler' = [handler EXCEPT ![p] = RecvRaises(@)]
    /\ UNCHANGED <<byteorder, codec, mainVars, server, client>>

\* time.sleep(0.25), and return.
DiagnosticSleep(p) ==
    /\ handler[p].pc = "sleep"
    /\ handler' = [handler EXCEPT ![p] = [@ EXCEPT !.pc = "done"]]
    /\ UNCHANGED <<byteorder, codec, mainVars, server, client>>


(***************************************************************************)
(* Handler.handle, the Stream loop.                                        *)
(***************************************************************************)
\* msg = self.make_message(data)
Frame(p) == make_message(handler[p].data)

\* random.randint(1, 5)
Copies == 1..MaxCopies

\* n = j: the empty slice, always.
CutPointsStuck(j0, len) == {j0}

\* random.randint(j, len(msg))
CutPoints(j0, len) == j0..len

\* j = n + 1: a byte is skipped.
NextOffsetSkip(j0, n) == n + 1

\* j = n
NextOffset(j0, n) == n

\* range(0, 10): the loop ends after ten iterations.
AfterIterationShort(i0) == IF i0 + 1 < 10 THEN "stream" ELSE "done"

\* The place that follows iteration i0 of the for loop.
AfterIteration(i0) == IF i0 + 1 < Iterations THEN "stream" ELSE "done"

\* The sample frames that byte string s holds whole.
Whole(p, s) == Len(s) \div Len(Frame(p))

\* msg = b''.join([msg] * random.randint(1, 5)); dt = 0; j = 0
IterBegin(p) ==
    /\ handler[p].pc = "stream"
    /\ handler[p].i < MaxFine
    /\ \E k \in Copies :
          handler' = [handler EXCEPT ![p] =
              [@ EXCEPT !.msg = Join(Repeat(Frame(p), k)),
                        !.j = 0,
                        !.sent = <<>>,
                        !.pc = "walk"]]
    /\ UNCHANGED <<byteorder, codec, mainVars, server, client>>

\* One turn of the while loop: n = random.randint(j, len(msg)), then
\* sendall(msg[j:n]); a caught error returns from handle; j = n.
SendSlice(p) ==
    /\ handler[p].pc = "walk"
    /\ handler[p].j < Len(handler[p].msg)
    /\ LET h == handler[p]
       IN  \E r \in SendResults(h) :
              IF r = "ok"
              THEN \E n \in CutPoints(h.j, Len(h.msg)) :
                     handler' = [handler EXCEPT ![p] =
                         [AfterSend(@, r) EXCEPT
                             !.sent = @ \o Slice(h.msg, h.j, n),
                             !.j = NextOffset(h.j, n)]]
              ELSE handler' = [handler EXCEPT ![p] =
                       [AfterSend(@, r) EXCEPT
                           !.pc = IF Caught(r) THEN "done" ELSE "raised"]]
    /\ client' = [client EXCEPT ![server[p].cur] =
                     [@ EXCEPT !.out = Logged(@, "sample", Frame(p)),
                               !.distinct = @ \cup {Frame(p)}]]
    /\ UNCHANGED <<byteorder, codec, mainVars, server>>

\* The while loop is over: the sleep that ends the iteration, and the next
\* one, or the end of handle after the last one.  msg and j are assigned
\* again before they are read: they are dropped here.  With `tally`, the
\* sample frames that the iteration has sent are added to nsent.
IterEnd(p, tally) ==
    /\ handler[p].pc = "walk"
    /\ ~(handler[p].j < Len(handler[p].msg))
    /\ LET h == handler[p]
       IN  handler' = [handler EXCEPT ![p] =
               [@ EXCEPT !.nsent = IF tally THEN @ + Whole(p, h.sent) ELSE @,
                         !.msg = Unbound,
                         !.j = 0,
                         !.sent = <<>>,
                         !.i = @ + 1,
                         !.pc = AfterIteration(h.i)]]
    /\ UNCHANGED <<byteorder, codec, mainVars, server, client>>

\* One whole iteration of the for loop: k copies, all sent, or a send that
\* fails.
StreamStep(p, tally) ==
    /\ handler[p].pc = "stream"
    /\ handler[p].i >= MaxFine
    /\ LET h == handler[p]
       IN  \E k \in Copies :
             \/ /\ ~h.broken
                /\ handler' = [handler EXCEPT ![p] =
                       [AfterSend(@, "ok") EXCEPT
                           !.msg = Unbound,
                           !.nsent = IF tally THEN @ + k ELSE @,
                           !.i = @ + 1,
                           !.pc = AfterIteration(h.i)]]
             \/ \E r \in SendResults(h) \ {"ok"} :
                  handler' = [handler EXCEPT ![p] =
                       [AfterSend(@, r) EXCEPT
                           !.msg = Unbound,
                           !.pc = IF Caught(r) THEN "done" ELSE "raised"]]
    /\ client' = [client EXCEPT ![server[p].cur] =
                     [@ EXCEPT !.out = Logged(@, "sample", Frame(p)),
                               !.distinct = @ \cup {Frame(p)}]]
    /\ UNCHANGED <<byteorder, codec, mainVars, server>>

\* The whole for loop and the return of handle that follows it: it ends
\* after the last iteration, or at a send that fails.
StreamLoop(p) ==
    /\ handler[p].pc = "stream"
    /\ \E r \in SendResults(handler[p]) :
          client' = [client EXCEPT ![server[p].cur] =
              [@ EXCEPT !.out = Logged(@, "sample", Frame(p)),
                        !.distinct = @ \cup {Frame(p)},
                        !.state = "closed",
                        !.ended = IF r = "ok" \/ Caught(r)
                                  THEN "return" ELSE "exception"]]
    /\ server' = [server EXCEPT ![p] = [@ EXCEPT !.worker = "select", !.cur = 0]]
    /\ handler' = [handler EXCEPT ![p] = NoHandler]
    /\ UNCHANGED <<byteorder, codec, mainVars>>

(***************************************************************************)
(* main() and SDKServer.                                                   *)
(***************************************************************************)
\* s.start_thread(): the thread runs serve_forever, which clears
\* __is_shut_down and enters its loop.
StartThread ==
    /\ mainpc = "start"
    /\ server' = [server EXCEPT ![PORTS[mainIdx]] =
                     [@ EXCEPT !.worker = "select", !.is_shut_down = FALSE]]
    /\ IF mainIdx < Len(PORTS)
       THEN mainIdx' = mainIdx + 1 /\ mainpc' = mainpc
       ELSE mainIdx' = 1 /\ mainpc' = "run"
    /\ UNCHANGED <<byteorder, codec, hasArg, stopStep, rc, exitCode, handler, client>>

\* rc = subprocess.call(sys.argv[1]) returns.
SubprocessExit ==
    /\ mainpc = "run"
    /\ hasArg
    /\ \E code \in ReturnCodes : rc' = code
    /\ mainpc' = "stop"
    /\ mainIdx' = 1
    /\ stopStep' = "shutdown"
    /\ UNCHANGED <<byteorder, codec, hasArg, exitCode, server, handler, client>>

\* One pass of join_thread(1) calls and no loop around it: main() goes on
\* to stop the servers.
JoinPollOnce ==
    /\ mainpc = "run"
    /\ ~hasArg
    /\ mainpc' = "stop"
    /\ mainIdx' = 1
    /\ stopStep' = "shutdown"
    /\ UNCHANGED <<byteorder, codec, hasArg, rc, exitCode, server, handler,
                   client>>

\* Without an argument: one pass of the endless loop of join_thread(1)
\* calls, each of which times out while the worker runs.
JoinPoll ==
    /\ mainpc = "run"
    /\ ~hasArg
    /\ \A p \in PortSet : server[p].worker # "exited"
    /\ UNCHANGED vars

\* stop_thread(): self.server.shutdown() sets __shutdown_request ...
Shutdown ==
    /\ mainpc = "stop"
    /\ stopStep = "shutdown"
    /\ server' = [server EXCEPT ![PORTS[mainIdx]] =
                     [@ EXCEPT !.shutdown_request = TRUE,
                               !.inflight = (@ \/ server[PORTS[mainIdx]].worker = "handle")]]
    /\ stopStep' = "wait"
    /\ UNCHANGED <<byteorder, codec, hasArg, mainpc, mainIdx, rc, exitCode,
                   handler, client>>

\* ... and returns from __is_shut_down.wait().
ShutdownMayReturn(p) == server[p].is_shut_down

ShutdownWait ==
    /\ mainpc = "stop"
    /\ stopStep = "wait"
    /\ ShutdownMayReturn(PORTS[mainIdx])
    /\ stopStep' = "close"
    /\ UNCHANGED <<byteorder, codec, hasArg, mainpc, mainIdx, rc, exitCode,
                   server, handler, client>>

\* self.server.server_close(): the listening socket is closed, and with it
\* the connections that were never accepted.
ServerClose ==
    /\ mainpc = "stop"
    /\ stopStep = "close"
    /\ LET p == PORTS[mainIdx]
           q == server[p].backlog
           waiting == {q[x] : x \in 1..Len(q)}
       IN  /\ server' = [server EXCEPT ![p] =
                            [@ EXCEPT !.listening = FALSE, !.backlog = <<>>]]
           /\ client' = [c \in Conns |->
                            IF c \in waiting
                            THEN [client[c] EXCEPT !.state = "closed",
                                                   !.ended = "refused"]
                            ELSE client[c]]
    /\ stopStep' = "join"
    /\ UNCHANGED <<byteorder, codec, hasArg, mainpc, mainIdx, rc, exitCode, handler>>

\* self.thread.join() returns when the worker has ended.
JoinMayReturn(p) == server[p].worker = "exited"

\* The end of stop_thread(); after the last one, sys.exit(rc).
ThreadJoin ==
    /\ mainpc = "stop"
    /\ stopStep = "join"
    /\ JoinMayReturn(PORTS[mainIdx])
    /\ IF mainIdx < Len(PORTS)
       THEN /\ mainIdx' = mainIdx + 1
            /\ stopStep' = "shutdown"
            /\ UNCHANGED <<mainpc, exitCode>>
       ELSE /\ mainpc' = "exit"
            /\ exitCode' = rc
            /\ UNCHANGED <<mainIdx, stopStep>>
    /\ UNCHANGED <<byteorder, codec, hasArg, rc, server, handler, client>>

\* A loop that a shutdown request ends inside a session.
CanExitAtOnce(p) ==
    /\ server[p].worker \in {"select", "handle"}
    /\ server[p].shutdown_request

\* serve_forever leaves its loop only between two connections, when it
\* finds __shutdown_request set; it resets it and sets __is_shut_down, and
\* the thread ends.
CanExit(p) ==
    /\ server[p].worker = "select"
    /\ server[p].shutdown_request

LoopExit(p) ==
    /\ CanExit(p)
    /\ server' = [server EXCEPT ![p] =
                     [@ EXCEPT !.worker = "exited",
                               !.shutdown_request = FALSE,
                               !.is_shut_down = TRUE]]
    /\ UNCHANGED <<byteorder, codec, mainVars, handler, client>>

(***************************************************************************)
(* The frame codec by itself: a body is encoded by make_message, or bytes  *)
(* that are no frame arrive, and read_message is called on them.           *)
(***************************************************************************)
InitCodec ==
    /\ byteorder \in ByteOrders
    /\ hasArg = FALSE
    /\ mainpc = "run"
    /\ mainIdx = 1
    /\ stopStep = "shutdown"
    /\ rc = 0
    /\ exitCode = -1
    /\ server = [p \in PortSet |-> [NewServer EXCEPT !.worker = "select"]]
    /\ handler = [p \in PortSet |-> NoHandler]
    /\ client = [c \in Conns |-> NoClient]
    /\ codec \in {[NoCodec EXCEPT !.step = "input", !.body = b] : b \in Bodies}

\* self.make_message(data), and what follows the frame on the connection.
Encode ==
    /\ codec.step = "input"
    /\ \E t \in Trails :
          codec' = [codec EXCEPT !.step = "wire",
                                 !.wire = make_message(codec.body) \o t]
    /\ UNCHANGED <<byteorder, mainVars, server, handler, client>>

\* Bytes that no make_message has made.
Raw ==
    /\ codec.step = "input"
    /\ \E w \in RawStreams :
          codec' = [codec EXCEPT !.step = "wire", !.body = None, !.wire = w]
    /\ UNCHANGED <<byteorder, mainVars, server, handler, client>>

\* self.read_message()
ReadMessage ==
    /\ codec.step = "wire"
    /\ codec' = [codec EXCEPT !.step = "read",
                             !.message = read_message(codec.wire),
                             !.rest = AfterRead(codec.wire)]
    /\ UNCHANGED <<byteorder, mainVars, server, handler, client>>

(***************************************************************************)
(* The specifications.                                                     *)
(***************************************************************************)
\* The steps of a session up to the Stream loop, with the channel lists
\* that the clients send drawn from `streams`.
Handshake(p, streams) ==
    \/ SendIdentity(p)
    \/ ReadChannelList(p, streams)
    \/ SendDeviceList(p)
    \/ DiagnosticReply(p)
    \/ DiagnosticTimeout(p)
    \/ DiagnosticSleep(p)

\* The whole program: main(), the six workers, MaxConns connections; the
\* Stream loop of a session is one step.
Next ==
    \/ StartThread
    \/ SubprocessExit
    \/ JoinPoll
    \/ Shutdown
    \/ ShutdownWait
    \/ ServerClose
    \/ ThreadJoin
    \/ \E p \in PortSet : LoopExit(p)
    \/ \E c \in Conns, p \in PortSet : Connect(c, p)
    \/ \E p \in PortSet : Accept(p)
    \/ \E p \in PortSet : Handshake(p, FewStreams)
    \/ \E p \in PortSet : StreamLoop(p)
    \/ \E p \in PortSet : Finish(p)

Spec == Init /\ [][Next]_vars

\* One session, on any port, while main() waits: the first MaxFine
\* iterations of the Stream loop slice by slice, the others whole.
NextSession ==
    \/ \E p \in PortSet : Connect(1, p)
    \/ \E p \in PortSet : Accept(p)
    \/ \E p \in PortSet : Handshake(p, ClientStreams)
    \/ \E p \in PortSet : IterBegin(p)
    \/ \E p \in PortSet : SendSlice(p)
    \/ \E p \in PortSet : IterEnd(p, FALSE)
    \/ \E p \in PortSet : StreamStep(p, FALSE)
    \/ \E p \in PortSet : Finish(p)

SpecSession == InitSession /\ [][NextSession]_vars

\* The same, with the tally of the sample frames of the session.
NextCount ==
    \/ \E p \in PortSet : Connect(1, p)
    \/ \E p \in PortSet : Accept(p)
    \/ \E p \in PortSet : Handshake(p, FewStreams)
    \/ \E p \in PortSet : IterBegin(p)
    \/ \E p \in PortSet : SendSlice(p)
    \/ \E p \in PortSet : IterEnd(p, TRUE)
    \/ \E p \in PortSet : StreamStep(p, TRUE)
    \/ \E p \in PortSet : Finish(p)

SpecCount == InitSession /\ [][NextCount]_vars

\* main() and the workers, with one connection.  The threads of the
\* program go on running: a step of main() or of a worker that stays
\* possible is taken.  Nothing is assumed of the subprocess and of the
\* clients.
NextDriver ==
    \/ StartThread
    \/ SubprocessExit
    \/ JoinPoll
    \/ Shutdown
    \/ ShutdownWait
    \/ ServerClose
    \/ ThreadJoin
    \/ \E p \in PortSet : LoopExit(p)
    \/ \E p \in PortSet : Connect(1, p)
    \/ \E p \in PortSet : Accept(p)
    \/ \E p \in PortSet : Handshake(p, FewStreams)
    \/ \E p \in PortSet : StreamLoop(p)
    \/ \E p \in PortSet : Finish(p)

MainSteps ==
    StartThread \/ Shutdown \/ ShutdownWait \/ ServerClose \/ ThreadJoin

WorkerSteps(p) == LoopExit(p) \/ Accept(p) \/ StreamLoop(p) \/ Finish(p)

SpecDriver ==
    /\ Init
    /\ [][NextDriver]_vars
    /\ WF_vars(MainSteps)
    /\ \A p \in PortSet : WF_vars(WorkerSteps(p))

\* The ports of the runs in which the end of the walk is looked for: the
\* services with the two shortest samples, of 6 and of 22 bytes.
WalkPorts == {32075, 32077}

\* One session, in which the worker thread goes on running: while the
\* sends succeed, a step of the Stream loop that stays possible is taken,
\* and the walk over a buffer does not draw the empty slice for ever.
\* Nothing is assumed of the client and of the sends that fail.
NextWalk ==
    \/ \E p \in WalkPorts : Connect(1, p)
    \/ \E p \in PortSet : Accept(p)
    \/ \E p \in PortSet : SendIdentity(p)
    \/ \E p \in PortSet : SendDeviceList(p)
    \/ \E p \in PortSet : IterBegin(p)
    \/ \E p \in PortSet : SendSlice(p)
    \/ \E p \in PortSet : IterEnd(p, FALSE)
    \/ \E p \in PortSet : StreamStep(p, FALSE)
    \/ \E p \in PortSet : Finish(p)

StreamProgress ==
    \E p \in PortSet :
        \/ IterBegin(p)
        \/ SendSlice(p) /\ ~handler'[p].failed
        \/ IterEnd(p, FALSE)
        \/ StreamStep(p, FALSE) /\ ~handler'[p].failed

SpecWalk == InitSession /\ [][NextWalk]_vars /\ WF_vars(StreamProgress)

\* The codec.
NextCodec == Encode \/ Raw \/ ReadMessage

SpecCodec == InitCodec /\ [][NextCodec]_vars

(***************************************************************************)
(* The properties.  What follows states them without the definitions of    *)
(* the handler: a keyword is looked for position by position, the replies  *)
(* are written out byte by byte, and a byte stream is cut into frames as   *)
(* a client does it.                                                       *)
(***************************************************************************)
Kinds(o) == [x \in 1..Len(o) |-> o[x].kind]

IsPrefix(a, b) == Len(a) <= Len(b) /\ \A x \in 1..Len(a) : a[x] = b[x]

Contains(s, sub) ==
    \E k \in 1..(Len(s) - Len(sub) + 1) :
        \A x \in 1..Len(sub) : s[k + x - 1] = sub[x]

HasKeyword(m) ==
    Contains(m, KwHeader) \/ Contains(m, KwPayload) \/ Contains(m, KwLength)
      \/ Contains(m, KwXml)

KeywordCount(m) ==
    Cardinality({kw \in {KwHeader, KwPayload, KwLength, KwXml} : Contains(m, kw)})

\* The length that the first four bytes of s declare.
Declared(s) == s[1] * 16777216 + s[2] * 65536 + s[3] * 256 + s[4]

\* The bodies of the frames of byte stream s, by its length prefixes; a
\* stream that ends inside a frame yields None as its last body.
RECURSIVE Decode(_)
Decode(s) ==
    IF s = <<>> THEN <<>>
    ELSE IF Len(s) < 4 \/ Len(s) < 4 + Declared(s) THEN <<None>>
    ELSE <<SubSeq(s, 5, 4 + Declared(s))>>
           \o Decode(SubSeq(s, 5 + Declared(s), Len(s)))

\* The replies of the diagnostic service, byte by byte.
ShortReply == IF byteorder = "little" THEN <<1, 0>> ELSE <<0, 1>>

PayloadReply == <<0, 0, 0, 40, 0, 0, 0, 1, 0, 0, 0, 8, 65, 32, 0, 0,
                  65, 48, 0, 0, 65, 64, 0, 0>>

LengthReply == <<0, 1, 0, 0, 0, 0, 0, 1, 0, 0, 0, 8, 65, 32, 0, 0,
                 65, 48, 0, 0, 65, 64, 0, 0>>

XmlReply == <<0, 0, 0, 4, 60, 63, 120, 109>>

\* The connections with a session in progress, and the port of each.
Sessions == {c \in Conns : client[c].state = "serving"}

PortOf(c) == client[c].port

\* The reply written on connection c, when there is one.
HasReply(c) == \E x \in 1..Len(client[c].out) : client[c].out[x].kind = "reply"

ReplyOf(c) ==
    LET o == client[c].out
    IN  o[CHOOSE x \in 1..Len(o) : o[x].kind = "reply"].bytes

(***************************************************************************)
(* C1: on every connection the identity frame is the first write, the      *)
(* device list frame is the second one, and a sample frame (on a           *)
(* production port) or a reply (on another port) comes only after both.    *)
(***************************************************************************)
C1_HandshakeOrder ==
    \A c \in Conns :
        LET o == client[c].out
        IN  /\ Len(o) >= 1 =>
                 /\ o[1].kind = "identity"
                 /\ o[1].bytes = make_message(IdentityXml(PortOf(c)))
            /\ Len(o) >= 2 =>
                 /\ o[2].kind = "devlist"
                 /\ o[2].bytes = make_message(DeviceListXml)
            /\ \A x \in 1..Len(o) :
                 /\ o[x].kind \in {"sample", "reply"} => x >= 3
                 /\ o[x].kind = "sample" => IsProduction(PortOf(c))
                 /\ o[x].kind = "reply" => ~IsProduction(PortOf(c))

\* A sample frame has been written on the configurable port, after the
\* identity and the device list.
C1_Witness ==
    \E c \in Conns :
        /\ PortOf(c) = 32076
        /\ Kinds(client[c].out) = <<"identity", "devlist", "sample">>

(***************************************************************************)
(* C3: in an iteration of the Stream loop the slices sent so far, joined   *)
(* in the order they were sent in, are the first j bytes of the buffer, j  *)
(* never passes its end, and when the walk is over they are the buffer: a  *)
(* stream that a client cuts, by its length prefixes, into 1 to 5 frames   *)
(* of which each holds the canned sample.                                  *)
(***************************************************************************)
C3_SlicesRebuildBuffer ==
    \A p \in PortSet :
        LET h == handler[p]
        IN  h.pc = "walk" =>
              /\ h.j <= Len(h.msg)
              /\ Len(h.sent) = h.j
              /\ IsPrefix(h.sent, h.msg)
              /\ h.j = Len(h.msg) =>
                   \E k \in 1..5 :
                       Decode(h.sent) = [x \in 1..k |-> Data(p, byteorder)]

\* The walk over five copies of the preview sample is over, on a
\* big-endian machine.
C3_Witness ==
    /\ handler[32079].pc = "walk"
    /\ handler[32079].j = Len(handler[32079].msg)
    /\ Len(Decode(handler[32079].sent)) = 5
    /\ byteorder = "big"

(***************************************************************************)
(* C4: the reply of the diagnostic service is the one of the first keyword *)
(* of header, payload, length, xml that the channel list holds, wherever   *)
(* in the message the keywords are.                                        *)
(***************************************************************************)
PriorityReply(m) ==
    IF Contains(m, KwHeader) THEN ShortReply
    ELSE IF Contains(m, KwPayload) THEN PayloadReply
    ELSE IF Contains(m, KwLength) THEN LengthReply
    ELSE XmlReply

C4_ReplyByPriority ==
    \A c \in Sessions :
        (~IsProduction(PortOf(c)) /\ HasReply(c)) =>
            LET m == handler[PortOf(c)].msg
            IN  /\ HasKeyword(m)
                /\ ReplyOf(c) = PriorityReply(m)

\* The channel list is b"xml", b"length", b"payload" in this order: the
\* reply is the one of payload, the keyword that comes last in it.
C4_Witness ==
    \E c \in Sessions :
        /\ ~IsProduction(PortOf(c))
        /\ HasReply(c)
        /\ handler[PortOf(c)].msg = KwXml \o KwLength \o KwPayload
        /\ ReplyOf(c) = PayloadReply

(***************************************************************************)
(* C5 as it was claimed: when the channel list holds b"header", the reply  *)
(* starts with a four byte length prefix that declares 2.                  *)
(***************************************************************************)
C5_Original ==
    \A c \in Sessions :
        (/\ ~IsProduction(PortOf(c))
         /\ HasReply(c)
         /\ Contains(handler[PortOf(c)].msg, KwHeader)) =>
            /\ Len(ReplyOf(c)) >= 4
            /\ Declared(ReplyOf(c)) = 2

(***************************************************************************)
(* C5: when the channel list holds b"header", the reply is two bytes in    *)
(* all, the short integer 1 in the byte order of the machine: less than a  *)
(* length prefix, so that no length is declared.                           *)
(***************************************************************************)
C5_ShortReply ==
    \A c \in Sessions :
        (/\ ~IsProduction(PortOf(c))
         /\ HasReply(c)
         /\ Contains(handler[PortOf(c)].msg, KwHeader)) =>
            /\ Len(ReplyOf(c)) = 2
            /\ ReplyOf(c) = ShortReply

\* The reply to a channel list that holds b"header", on a big-endian
\* machine.
C5_Witness ==
    \E c \in Sessions :
        /\ ~IsProduction(PortOf(c))
        /\ HasReply(c)
        /\ Contains(handler[PortOf(c)].msg, KwHeader)
        /\ ReplyOf(c) = <<0, 1>>

(***************************************************************************)
(* C6: when the channel list does not hold b"header", the reply declares   *)
(* the length 40 if it holds b"payload"; if not, 65536 if it holds         *)
(* b"length"; if not, and if it holds b"xml", the reply is a whole frame   *)
(* with the body b"<?xm".                                                  *)
(***************************************************************************)
C6_OtherReplies ==
    \A c \in Sessions :
        LET m == handler[PortOf(c)].msg
            reply == ReplyOf(c)
        IN  (/\ ~IsProduction(PortOf(c))
             /\ HasReply(c)
             /\ ~Contains(m, KwHeader)) =>
               IF Contains(m, KwPayload) THEN Declared(reply) = 40
               ELSE IF Contains(m, KwLength)
                    THEN Declared(reply) = 65536 /\ Declared(reply) > MaxLength
               ELSE /\ Contains(m, KwXml)
                    /\ Decode(reply) = << <<60, 63, 120, 109>> >>

\* The reply to a channel list that holds b"length" and b"xml" and neither
\* b"header" nor b"payload".
C6_Witness ==
    \E c \in Sessions :
        LET m == handler[PortOf(c)].msg
        IN  /\ ~IsProduction(PortOf(c))
            /\ HasReply(c)
            /\ Contains(m, KwLength) /\ Contains(m, KwXml)
            /\ ~Contains(m, KwHeader) /\ ~Contains(m, KwPayload)
            /\ Declared(ReplyOf(c)) = 65536

(***************************************************************************)
(* C7: a session of the diagnostic service whose channel list holds a      *)
(* keyword sends one reply after the device list and ends: the handler is  *)
(* never in the Stream loop, and no sample frame is written.               *)
(***************************************************************************)
C7_OneReplyNoStream ==
    \A c \in Conns :
        ~IsProduction(PortOf(c)) /\ client[c].state # "new" =>
            /\ IsPrefix(Kinds(client[c].out), <<"identity", "devlist", "reply">>)
            /\ client[c].distinct = {}
            /\ client[c].state = "serving" =>
                 LET h == handler[PortOf(c)]
                 IN  /\ h.pc \notin {"stream", "walk"}
                     /\ h.i = 0
                     /\ h.pc \in {"timeout", "sleep", "done"} =>
                          /\ HasKeyword(h.msg)
                          /\ Kinds(client[c].out) = <<"identity", "devlist", "reply">>
                     /\ (h.pc = "raised" /\ HasReply(c)) =>
                          Kinds(client[c].out) = <<"identity", "devlist", "reply">>

\* A session of the diagnostic service has ended after its reply.
C7_Witness ==
    \E c \in Conns :
        /\ ~IsProduction(PortOf(c))
        /\ client[c].state = "closed"
        /\ client[c].ended = "return"
        /\ Kinds(client[c].out) = <<"identity", "devlist", "reply">>

(***************************************************************************)
(* C8: after its reply the diagnostic service writes nothing; when the     *)
(* channel list holds b"timeout" the session ends only with the return of  *)
(* one more read, and when it does not, the session ends after the sleep   *)
(* with no more read.                                                      *)
(***************************************************************************)
C8_TimeoutOrSleep ==
    \A c \in Sessions :
        LET h == handler[PortOf(c)]
        IN  ~IsProduction(PortOf(c)) =>
              /\ h.pc = "timeout" =>
                   Contains(h.msg, KwTimeout) /\ h.reads = 1 /\ HasReply(c)
              /\ h.pc = "sleep" =>
                   ~Contains(h.msg, KwTimeout) /\ h.reads = 1 /\ HasReply(c)
              /\ h.pc = "done" =>
                   /\ h.reads = IF Contains(h.msg, KwTimeout) THEN 2 ELSE 1
                   /\ Kinds(client[c].out) = <<"identity", "devlist", "reply">>
              /\ h.reads <= 2

\* The second read of a session whose channel list holds b"header" and
\* b"timeout" has returned.
C8_Witness ==
    \E c \in Sessions :
        LET h == handler[PortOf(c)]
        IN  /\ ~IsProduction(PortOf(c))
            /\ h.pc = "done"
            /\ h.msg = KwHeader \o KwTimeout
            /\ h.reads = 2

(***************************************************************************)
(* C2 as it was claimed: a session that no send has failed and that has    *)
(* ended has written 100 sample frames that differ in their content.       *)
(***************************************************************************)
C2_Original ==
    \A c \in Sessions :
        LET h == handler[PortOf(c)]
        IN  (IsProduction(PortOf(c)) /\ h.pc = "done" /\ ~h.failed) =>
               Cardinality(client[c].distinct) = 100

(***************************************************************************)
(* C2: a session on a production port that no send has failed runs the     *)
(* iterations 0..99 of the Stream loop and ends after them; each iteration *)
(* writes 1 to 5 copies of the one encoded sample of the port, so that the *)
(* session has written between 100 and 500 sample frames, all of the same  *)
(* content.                                                                *)
(***************************************************************************)
C2_HundredIterations ==
    \A c \in Sessions :
        LET p == PortOf(c)
            h == handler[p]
        IN  IsProduction(p) =>
              /\ h.i <= 100
              /\ h.i <= h.nsent /\ h.nsent <= 5 * h.i
              /\ client[c].distinct \subseteq {make_message(Data(p, byteorder))}
              /\ h.pc = "stream" => h.i < 100
              /\ (h.pc = "done" /\ ~h.failed) =>
                   /\ h.i = 100
                   /\ client[c].distinct = {make_message(Data(p, byteorder))}

\* A session has ended after 100 iterations with 237 sample frames written.
C2_Witness ==
    \E c \in Sessions :
        LET h == handler[PortOf(c)]
        IN  /\ PortOf(c) = 32077
            /\ h.pc = "done" /\ ~h.failed
            /\ h.i = 100
            /\ h.nsent = 237

\* The clients of port p that are in state st.
ClientsOf(p, st) == {c \in Conns : client[c].port = p /\ client[c].state = st}

(***************************************************************************)
(* C9: a port has at most one session in progress, and it is the one its   *)
(* worker handles; a client that waits for a port has been written         *)
(* nothing, not even the identity frame; every client that is served, the  *)
(* first one or a later one, is written the identity frame of the port     *)
(* first and the device list frame next.                                   *)
(***************************************************************************)
C9_OneSessionPerPort ==
    /\ \A p \in PortSet :
          /\ Cardinality(ClientsOf(p, "serving")) <= 1
          /\ server[p].worker = "handle" <=> ClientsOf(p, "serving") # {}
          /\ ClientsOf(p, "serving") \subseteq {server[p].cur}
          /\ \A x \in 1..Len(server[p].backlog) :
                server[p].backlog[x] \in ClientsOf(p, "queued")
    /\ \A c \in Conns :
          LET o == client[c].out
          IN  /\ client[c].state \in {"new", "queued"} => o = <<>>
              /\ client[c].ended = "refused" => o = <<>>
              /\ Len(o) >= 1 =>
                    o[1] = [kind |-> "identity",
                            bytes |-> make_message(IdentityXml(PortOf(c)))]
              /\ Len(o) >= 2 =>
                    o[2] = [kind |-> "devlist",
                            bytes |-> make_message(DeviceListXml)]
              /\ client[c].ended = "return" => Len(o) >= 2

\* The second client of a port waits with nothing written to it while the
\* first one is at its Stream loop.
C9_Witness ==
    /\ client[1].port = 32078 /\ client[1].state = "serving"
    /\ handler[32078].pc = "stream"
    /\ client[2].port = 32078 /\ client[2].state = "queued"
    /\ client[2].out = <<>>

\* The second client of a port is served after the first one's handler has
\* returned.
C9_SecondServed ==
    /\ client[1].port = 32078 /\ client[1].ended = "return"
    /\ client[2].port = 32078 /\ client[2].state = "serving"
    /\ Len(client[2].out) = 2

\* Two ports have a session in progress each.
C9_TwoPorts ==
    /\ client[1].port = 32078 /\ client[1].state = "serving"
    /\ client[2].port = 32000 /\ client[2].state = "serving"

\* The place of port p in PORTS, and whether stop_thread() of its server
\* has been called, and has returned.
PortIndex(p) == CHOOSE k \in 1..Len(PORTS) : PORTS[k] = p

StopCalled(p) ==
    mainpc = "exit" \/ (mainpc = "stop" /\ PortIndex(p) <= mainIdx)

StopReturned(p) ==
    mainpc = "exit" \/ (mainpc = "stop" /\ PortIndex(p) < mainIdx)

(***************************************************************************)
(* C10: the worker of a port ends only between two sessions, never inside  *)
(* one, so that a session in progress when stop_thread is called ends by   *)
(* its handler's return or by an exception of its own; the listening       *)
(* socket is closed only after the accept loop has exited; and when        *)
(* stop_thread has returned the handler has returned, the loop has         *)
(* exited, the socket is closed, the worker has ended, and the port has no *)
(* connection that is served or that waits.                                *)
(***************************************************************************)
C10_StopWaitsForSession ==
    \A p \in PortSet :
        /\ server[p].worker = "exited" =>
              /\ StopCalled(p)
              /\ handler[p].pc = "none" /\ server[p].cur = 0
              /\ ClientsOf(p, "serving") = {}
        /\ ~server[p].listening =>
              /\ server[p].worker = "exited" /\ server[p].is_shut_down
              /\ server[p].backlog = <<>>
        /\ StopReturned(p) =>
              /\ server[p].worker = "exited"
              /\ ~server[p].listening
              /\ ClientsOf(p, "serving") = {} /\ ClientsOf(p, "queued") = {}
        /\ \A c \in ClientsOf(p, "closed") :
              /\ client[c].ended \in {"return", "exception", "refused"}
              /\ client[c].ended = "return" /\ IsProduction(p) =>
                    Kinds(client[c].out) \in
                       {<<"identity", "devlist">>,
                        <<"identity", "devlist", "sample">>}

\* stop_thread() was called while the one session of port 32078 was in
\* progress, and has returned after the session has ended by its
\* handler's return, with sample frames written.
C10_Witness ==
    /\ StopReturned(32078)
    /\ server[32078].inflight
    /\ client[1].port = 32078 /\ client[1].ended = "return"
    /\ Kinds(client[1].out) = <<"identity", "devlist", "sample">>
    /\ client[2].port # 32078

\* The four bytes of the length n, most significant first, digit by digit.
LengthPrefix(n) ==
    <<n \div 16777216, (n \div 65536) % 256, (n \div 256) % 256, n % 256>>

(***************************************************************************)
(* C11: the frame that make_message makes of a body b is the four bytes    *)
(* of len(b), most significant first, and then b unchanged, whatever the   *)
(* length of b; and when 0 < len(b) <= 65535, read_message over the frame  *)
(* returns b, and leaves on the connection what followed the frame.        *)
(***************************************************************************)
C11_RoundTrip ==
    (codec.step \in {"wire", "read"} /\ codec.body # None) =>
        LET b == codec.body
            w == codec.wire
        IN  /\ Len(w) >= 4 + Len(b)
            /\ SubSeq(w, 1, 4) = LengthPrefix(Len(b))
            /\ SubSeq(w, 5, 4 + Len(b)) = b
            /\ (codec.step = "read" /\ 0 < Len(b) /\ Len(b) <= 65535) =>
                  /\ codec.message = b
                  /\ codec.rest = SubSeq(w, 5 + Len(b), Len(w))

\* A body of 256 bytes, whose length takes two bytes of the header, has
\* been read back, with a byte left behind it.
C11_Witness ==
    /\ codec.step = "read"
    /\ codec.body # None /\ Len(codec.body) = 256
    /\ SubSeq(codec.wire, 1, 4) = <<0, 0, 1, 0>>
    /\ codec.message = codec.body
    /\ codec.rest = <<0>>

(***************************************************************************)
(* C12: when the four bytes of the header declare the length 0 or a        *)
(* length above 65535, read_message returns None whatever follows the      *)
(* header, and every byte that follows the header is still on the          *)
(* connection.                                                             *)
(***************************************************************************)
C12_BadLengthRejected ==
    (/\ codec.step = "read"
     /\ Len(codec.wire) >= 4
     /\ (Declared(codec.wire) = 0 \/ Declared(codec.wire) > 65535)) =>
        /\ codec.message = None
        /\ codec.rest = SubSeq(codec.wire, 5, Len(codec.wire))

\* A header that declares 65536 was followed by b"header", and
\* read_message has returned None and left these six bytes.
C12_Witness ==
    /\ codec.step = "read"
    /\ codec.body = None
    /\ codec.wire = <<0, 1, 0, 0, 104, 101, 97, 100, 101, 114>>
    /\ codec.message = None
    /\ codec.rest = <<104, 101, 97, 100, 101, 114>>

\* The service names by port, and the identity document of a name.
ServiceNames ==
    [p \in PortSet |->
        IF p = 32079 THEN <<112, 114, 101, 118, 105, 101, 119>>
        ELSE IF p = 32078 THEN <<115, 101, 110, 115, 111, 114>>
        ELSE IF p = 32077 THEN <<114, 97, 119>>
        ELSE IF p = 32076 THEN <<99, 111, 110, 102, 105, 103, 117, 114, 97, 98,
                                 108, 101>>
        ELSE IF p = 32075 THEN <<99, 111, 110, 115, 111, 108, 101>>
        ELSE <<116, 101, 115, 116>>]

IdentityOf(name) ==
    <<60, 63, 120, 109, 108, 32, 118, 101, 114, 115, 105, 111, 110, 61, 34,
      49, 46, 48, 34, 63, 62, 60, 115, 101, 114, 118, 105, 99, 101, 32, 110,
      97, 109, 101, 61, 34>> \o name \o <<34, 47, 62>>

\* Ports that are none of the five production ports.
OtherPorts == {0, 80, 32000, 32001, 32074, 32080, 65535}

(***************************************************************************)
(* C13: the first frame written on a connection holds the identity         *)
(* document with the name of the port the connection was accepted on       *)
(* (preview, sensor, raw, configurable, console, and test on 32000); only  *)
(* the handlers of ports 32076 and 32000 come to read a channel list; and  *)
(* a port that is none of the five production ports maps to the name test  *)
(* and to is_configurable true.                                            *)
(***************************************************************************)
C13_IdentityByPort ==
    /\ \A c \in Conns :
          Len(client[c].out) >= 1 =>
             /\ client[c].out[1].kind = "identity"
             /\ Decode(client[c].out[1].bytes) =
                   <<IdentityOf(ServiceNames[PortOf(c)])>>
    /\ \A p \in PortSet :
          /\ handler[p].pc = "chanlist" => p \in {32076, 32000}
          /\ handler[p].reads > 0 => p \in {32076, 32000}
          /\ (handler[p].pc \in {"devlist", "stream", "reply"}
                /\ p \in {32076, 32000}) => handler[p].reads > 0
    /\ \A q \in OtherPorts :
          Name(q) = <<116, 101, 115, 116>> /\ is_configurable(q)

\* A session of port 32077 has written the identity of the raw service and
\* has gone on to the device list without a read.
C13_Witness ==
    \E c \in Sessions :
        /\ PortOf(c) = 32077
        /\ Len(client[c].out) = 1
        /\ Decode(client[c].out[1].bytes) = <<IdentityOf(<<114, 97, 119>>)>>
        /\ handler[32077].pc = "devlist"
        /\ handler[32077].reads = 0

\* The workers that have ended, and the listening sockets that are closed.
AllStarted == \A p \in PortSet : server[p].worker # "unstarted"

AllStopped ==
    \A p \in PortSet : server[p].worker = "exited" /\ ~server[p].listening

(***************************************************************************)
(* C14 as it was claimed, for the standalone mode: a program run without   *)
(* an argument comes to exit with the code 0.                              *)
(***************************************************************************)
C14_Original == (~hasArg) ~> (mainpc = "exit" /\ exitCode = 0)

(***************************************************************************)
(* C14: the subprocess is run only when the six workers are started; no    *)
(* listener is stopped before the subprocess has returned; the program     *)
(* exits only when every worker has ended and every listening socket is    *)
(* closed, and then with the return code of the subprocess; and a program  *)
(* run without an argument never stops a listener and never exits: it has  *)
(* no exit code.                                                           *)
(***************************************************************************)
C14_DriverOrder ==
    /\ mainpc # "start" => AllStarted
    /\ mainpc = "start" =>
          /\ \A p \in PortSet :
                server[p].worker # "unstarted" <=> PortIndex(p) < mainIdx
          /\ rc = 0
    /\ mainpc \in {"start", "run"} =>
          \A p \in PortSet :
             /\ server[p].listening /\ server[p].worker # "exited"
             /\ ~server[p].shutdown_request
    /\ mainpc = "exit" => AllStopped /\ exitCode = rc
    /\ mainpc # "exit" => exitCode = -1
    /\ ~hasArg => mainpc \in {"start", "run"} /\ rc = 0 /\ exitCode = -1

\* The program has exited with the return code 1 of its subprocess, after
\* a session was served.
C14_Witness ==
    /\ hasArg /\ mainpc = "exit"
    /\ rc = 1 /\ exitCode = 1
    /\ AllStopped
    /\ client[1].ended = "return"

\* A step of the handler of port p in which a send has failed.
SendFails(p) ==
    /\ handler'[p].failed
    /\ handler'[p].reads = handler[p].reads
    /\ ~handler[p].failed \/ handler'[p].ioAfter > handler[p].ioAfter

(***************************************************************************)
(* C15: a step of the Stream loop in which a send fails with               *)
(* BrokenPipeError or ConnectionAbortedError is the return of handle: the  *)
(* iteration and the offset stay where they were; and after the return     *)
(* the next step of the session is the end of it, with nothing more        *)
(* written, the worker back in its loop and no exception reported.         *)
(***************************************************************************)
C15_StreamFailureReturns ==
    [][\A p \in PortSet :
         LET h == handler[p]
             g == handler'[p]
             c == server[p].cur
         IN  /\ (h.pc \in {"walk", "stream"} /\ SendFails(p)
                   /\ g.err \in {"BrokenPipeError", "ConnectionAbortedError"})
                  => (g.pc = "done" /\ g.i = h.i /\ g.j = h.j
                        /\ g.sent = h.sent)
             /\ (h.pc = "done" /\ g # h)
                  => /\ g.pc = "none"
                     /\ server'[p].worker = "select"
                     /\ client'[c].out = client[c].out
                     /\ client'[c].state = "closed"
                     /\ client'[c].ended = "return"]_vars

\* The walk of the first iteration on port 32078 has sent a part of its
\* buffer, the next send has failed with ConnectionAbortedError, and
\* handle has returned.
C15_Witness ==
    LET h == handler[32078]
    IN  /\ h.pc = "done"
        /\ h.err = "ConnectionAbortedError"
        /\ h.i = 0
        /\ 0 < h.j /\ h.j < Len(h.msg)
        /\ h.ioAfter = 0

(***************************************************************************)
(* C16 as it was claimed: once a send of a session has failed, the handler *)
(* begins no other send and no read on the connection.                     *)
(***************************************************************************)
C16_Original ==
    \A p \in PortSet : handler[p].failed => handler[p].ioAfter = 0

\* On port 32076 the send of the identity frame has failed with
\* BrokenPipeError; the handler has then read the channel list, called
\* write_message for the device list and begun the send of a slice, at
\* which it has returned.
C16_Witness ==
    LET h == handler[32076]
        c == server[32076].cur
    IN  /\ h.pc = "done"
        /\ h.err = "BrokenPipeError"
        /\ h.reads = 1
        /\ h.ioAfter = 3
        /\ Kinds(client[c].out) = <<"identity", "devlist", "sample">>

(***************************************************************************)
(* C17 as it was claimed: when the read of the channel list has returned   *)
(* None, nothing is written after the identity frame.                      *)
(***************************************************************************)
C17_Original ==
    \A c \in Sessions :
        LET h == handler[PortOf(c)]
        IN  (h.reads >= 1 /\ h.msg = None) => Len(client[c].out) <= 1

\* On port 32076 the read of the channel list has returned None, no send
\* has failed, the device list frame is written and the handler is at its
\* Stream loop.
C17_Witness ==
    \E c \in Sessions :
        LET h == handler[32076]
        IN  /\ PortOf(c) = 32076
            /\ h.reads = 1 /\ h.msg = None
            /\ ~h.failed
            /\ Kinds(client[c].out) = <<"identity", "devlist">>
            /\ h.pc = "stream" /\ h.i = 0
            /\ h.data = Data(32076, byteorder)

(***************************************************************************)
(* C18: the handlers of ports 32075, 32077, 32078 and 32079 never call     *)
(* read_message; the handlers of ports 32076 and 32000 call it once        *)
(* between the identity frame and the device list frame: no call before    *)
(* the identity frame is written, one call made when the device list       *)
(* frame is written, and no other call before the Stream loop or the       *)
(* reply (port 32000 reads once more after its reply, when the channel     *)
(* list holds "timeout").                                                  *)
(***************************************************************************)
C18_ReadsIffConfigurable ==
    \A p \in PortSet :
        LET h == handler[p]
            c == server[p].cur
        IN  /\ p \notin {32076, 32000} =>
                  h.reads = 0 /\ h.pc # "chanlist" /\ h.avail = <<>>
            /\ p \in {32076, 32000} =>
                  /\ h.pc \in {"identity", "chanlist"} => h.reads = 0
                  /\ h.pc = "chanlist" =>
                        Kinds(client[c].out) = <<"identity">>
                  /\ h.pc \in {"devlist", "stream", "walk", "reply", "sleep",
                               "timeout"} => h.reads = 1
                  /\ (c # 0 /\ Len(client[c].out) >= 2) => h.reads >= 1
                  /\ h.reads <= (IF p = 32076 THEN 1 ELSE 2)
                  /\ h.reads = 2 => HasReply(c)

\* The handler of port 32076 has read the channel list, once, and has not
\* written the device list frame yet.
C18_Witness ==
    \E c \in Sessions :
        /\ PortOf(c) = 32076
        /\ handler[32076].pc = "devlist"
        /\ handler[32076].reads = 1
        /\ handler[32076].msg = KwXml
        /\ Kinds(client[c].out) = <<"identity">>

\* The handlers that walk over a buffer, and those at the Stream loop.
Walking(p) == handler[p].pc = "walk"

Streaming(p) == handler[p].pc \in {"stream", "walk"}

(***************************************************************************)
(* C19: in the walk over a buffer the offset j starts at 0 and stays       *)
(* within 0..len(msg); a turn of the walk sends msg[j:n] for a n in        *)
(* j..len(msg) and sets j to n, so that j never decreases; the walk comes  *)
(* to its end (j = len(msg), or a send that fails); and a handler at its   *)
(* Stream loop, no send of its session having failed, comes to the end of  *)
(* handle.                                                                 *)
(***************************************************************************)
C19_WalkTerminates ==
    /\ [](\A p \in PortSet :
            Walking(p) =>
               /\ 0 <= handler[p].j /\ handler[p].j <= Len(handler[p].msg)
               /\ handler[p].sent = Slice(handler[p].msg, 0, handler[p].j))
    /\ [][\A p \in PortSet :
            /\ (~Walking(p) /\ Walking(p)') => handler'[p].j = 0
            /\ (Walking(p) /\ Walking(p)') =>
                  /\ handler'[p].j >= handler[p].j
                  /\ handler'[p].msg = handler[p].msg
                  /\ handler'[p].sent =
                        handler[p].sent
                          \o Slice(handler[p].msg, handler[p].j, handler'[p].j)
            /\ (Walking(p) /\ ~Walking(p)' /\ ~handler'[p].failed) =>
                  handler[p].j = Len(handler[p].msg)]_vars
    /\ (\E p \in PortSet : Walking(p) /\ ~handler[p].failed)
          ~> (\A p \in PortSet : ~Walking(p))
    /\ (\E p \in PortSet : Streaming(p) /\ ~handler[p].failed)
          ~> (\A p \in PortSet : ~Streaming(p))

\* A session of port 32077 has come to its end after its 100 iterations,
\* with no send failed.
C19_Witness ==
    /\ handler[32077].pc = "done"
    /\ ~handler[32077].failed
    /\ handler[32077].i = 100
    /\ handler[32077].j = 0

\* The sessions that end in a step, with the port of each.
Ending(c) == client[c].state = "serving" /\ client'[c].state = "closed"

(***************************************************************************)
(* C20: the step that ends a session, by the return of its handler or by   *)
(* an exception, leaves the worker of its port in its accept loop with     *)
(* the listening socket open and the waiting connections kept, and leaves  *)
(* the servers and the handlers of the other ports as they were; a worker  *)
(* ends and a listening socket is closed only in stop_thread; and a        *)
(* connection served after another one has ended is written the identity   *)
(* frame and the device list frame as the first one was.                   *)
(***************************************************************************)
C20_ListenerSurvives ==
    /\ [](\A p \in PortSet :
            /\ server[p].worker = "exited" => StopCalled(p)
            /\ ~server[p].listening => StopCalled(p)
            /\ \A c \in ClientsOf(p, "closed") :
                  /\ server[p].cur # c
                  /\ client[c].ended = "exception" => server[p].worker # "unstarted")
    /\ [](\A c \in Conns :
            Len(client[c].out) >= 2 =>
               Kinds(SubSeq(client[c].out, 1, 2)) = <<"identity", "devlist">>)
    /\ [][\A c \in Conns :
            Ending(c) =>
               LET p == PortOf(c)
               IN  /\ client'[c].ended \in {"return", "exception"}
                   /\ server'[p].worker = "select"
                   /\ server'[p].listening = server[p].listening
                   /\ server'[p].backlog = server[p].backlog
                   /\ server'[p].shutdown_request = server[p].shutdown_request
                   /\ handler'[p] = NoHandler
                   /\ \A q \in PortSet \ {p} :
                         server'[q] = server[q] /\ handler'[q] = handler[q]]_vars

\* On port 32000 the first session has ended by an exception with no reply
\* written (its channel list held no keyword), and the second connection
\* is served: identity, device list and reply are written.
C20_Witness ==
    /\ client[1].port = 32000 /\ client[1].ended = "exception"
    /\ Kinds(client[1].out) = <<"identity", "devlist">>
    /\ client[2].port = 32000 /\ client[2].state = "serving"
    /\ Kinds(client[2].out) = <<"identity", "devlist", "reply">>
    /\ server[32000].worker = "handle"
    /\ mainpc = "run"

=============================================================================
